---------------------------- MODULE Spec2Model ----------------------------
(***************************************************************************)
(* Model of huff_codegen (src/huff_codegen/src/lib.rs): the Codegen        *)
(* instance with its cached artifact (churn, abigen, export) and the       *)
(* recursive macro expansion recurse_bytecode, run as a call-stack         *)
(* machine.                                                                *)
(*                                                                         *)
(* Strings are kept run-length encoded: a string is a sequence of runs     *)
(* <<c, n>> (character c repeated n > 0 times), adjacent runs carrying     *)
(* different characters, so that equal strings are equal values and a      *)
(* bytecode of 65536 bytes is a small value.  Option<T> is <<>> (None) or  *)
(* <<x>> (Some(x)).                                                        *)
(***************************************************************************)
EXTENDS Integers, Sequences, FiniteSets, TLC

VARIABLES
    artifact,    \* Codegen.artifact : Option<Artifact>
    file,        \* contents of the writable output location (Option)
    last,        \* the last call on the instance and what it returned
    hChurn,      \* what the most recent churn wrote (Option), history
    hAbigen,     \* the abi the most recent abigen wrote (Option), history
    macros,      \* Contract.macros : sequence of [name, ir]
    constants,   \* Contract.constants : sequence of [name, value]
    astArg,      \* whether recurse_bytecode is passed Some(ast)
    selfAst,     \* whether Codegen.ast is Some
    stack,       \* call stack of recurse_bytecode frames
    ret          \* value handed back by the call that just returned (Option)

codegenVars == <<artifact, file, last, hChurn, hAbigen>>
expandVars == <<macros, constants, astArg, selfAst, stack, ret>>
vars == <<artifact, file, last, hChurn, hAbigen,
          macros, constants, astArg, selfAst, stack, ret>>

None == <<>>
Some(x) == <<x>>

\* what a call returned: Ok(v), Err(kind), or it panicked and returned nothing
Ok(v) == [kind |-> "Ok", val |-> v]
Err(k) == [kind |-> "Err", err |-> k]
Panic == [kind |-> "panic"]

(***************************************************************************)
(* Strings                                                                 *)
(***************************************************************************)
Run(c, n) == IF n = 0 THEN <<>> ELSE << <<c, n>> >>

\* x ++ y, for run sequences x and y
CatRuns(x, y) ==
    IF x = <<>> THEN y
    ELSE IF y = <<>> THEN x
    ELSE IF x[Len(x)][1] = y[1][1]
         THEN SubSeq(x, 1, Len(x) - 1)
              \o << <<y[1][1], x[Len(x)][2] + y[1][2]>> >>
              \o Tail(y)
         ELSE x \o y

\* a ++ b (a and b are each evaluated once, whatever expressions they are)
Cat(a, b) == CHOOSE r \in {CatRuns(u, v) : u \in {a}, v \in {b}} : TRUE

\* the string whose characters are cs, e.g. Lit(<<"6","1">>) is "61"
RECURSIVE Lit(_)
Lit(cs) == IF cs = <<>> THEN <<>> ELSE Cat(Run(cs[1], 1), Lit(Tail(cs)))

\* str::len
RECURSIVE StrLen(_)
StrLen(s) == IF s = <<>> THEN 0 ELSE s[1][2] + StrLen(Tail(s))

\* concatenation of a sequence of strings: [String].join("")
RECURSIVE Join(_)
Join(ss) == IF ss = <<>> THEN <<>> ELSE Cat(ss[1], Join(Tail(ss)))

HexDigits == <<"0", "1", "2", "3", "4", "5", "6", "7",
               "8", "9", "a", "b", "c", "d", "e", "f">>

\* n in lower-case hexadecimal, no padding: format!("{:x}", n)
RECURSIVE ToHex(_)
ToHex(n) ==
    IF n < 16 THEN Run(HexDigits[n + 1], 1)
    ELSE Cat(ToHex(n \div 16), Run(HexDigits[(n % 16) + 1], 1))

\* format!("{:0Wx}", n): W is a minimum width, longer numbers are not cut
FormatHex(n, width) ==
    LET h == ToHex(n)
    IN  IF StrLen(h) >= width THEN h
        ELSE Cat(Run("0", width - StrLen(h)), h)

\* hex::encode of a sequence of bytes (0..255): two digits a byte
RECURSIVE HexEncode(_)
HexEncode(bs) ==
    IF bs = <<>> THEN <<>>
    ELSE Cat(Cat(Run(HexDigits[(bs[1] \div 16) + 1], 1),
                 Run(HexDigits[(bs[1] % 16) + 1], 1)),
             HexEncode(Tail(bs)))

(***************************************************************************)
(* Deployment assembly: Codegen::churn                                     *)
(***************************************************************************)
BootstrapLen == 13

\* ethers::abi::encode(&[tok]) of one static token: one 32-byte word,
\* big-endian (a Uint below 256, or a Bool: val 1 for true, 0 for false)
AbiEncode(tok) ==
    [i \in 1..32 |-> IF i < 32 THEN 0 ELSE tok.val]

hex_args(args) == [i \in 1..Len(args) |-> HexEncode(AbiEncode(args[i]))]

constructor_args(args) == Join(hex_args(args))

\* variant: the size formatted without padding ({:x})
contract_size_unpadded(main_bytecode) == ToHex(StrLen(main_bytecode) \div 2)

contract_size(main_bytecode) == FormatHex(StrLen(main_bytecode) \div 2, 4)

contract_code_offset(constructor_bytecode) ==
    FormatHex(BootstrapLen + StrLen(constructor_bytecode) \div 2, 4)

bootstrap_code(main_bytecode, constructor_bytecode) ==
    Join(<< Lit(<<"6", "1">>),
            contract_size(main_bytecode),
            Lit(<<"8", "0", "6", "1">>),
            contract_code_offset(constructor_bytecode),
            Lit(<<"6", "0", "0", "0", "3", "9", "6", "0", "0", "0", "f", "3">>) >>)

constructor_code(main_bytecode, constructor_bytecode) ==
    Cat(constructor_bytecode, bootstrap_code(main_bytecode, constructor_bytecode))

\* variant: the constructor arguments placed before the runtime code
churn_bytecode_args_first(args, main_bytecode, constructor_bytecode) ==
    Join(<< constructor_code(main_bytecode, constructor_bytecode),
            constructor_args(args),
            main_bytecode >>)

churn_bytecode(args, main_bytecode, constructor_bytecode) ==
    Join(<< constructor_code(main_bytecode, constructor_bytecode),
            main_bytecode,
            constructor_args(args) >>)

\* Artifact::default()
ArtifactDefault == [bytecode |-> <<>>, runtime |-> <<>>, abi |-> None]

\* variant: churn always starts from a fresh artifact
churn_artifact_fresh(art) == ArtifactDefault

\* the artifact churn writes into: the cached one, or a fresh default
churn_artifact(art) == IF art # None THEN art[1] ELSE ArtifactDefault

\* Abi::from(Contract)
ToAbi(ast) == [abi_of |-> ast]

\* the artifact abigen leaves in self.artifact
abigen_artifact(art, abi) ==
    IF art # None
    THEN [art[1] EXCEPT !.abi = Some(abi)]
    ELSE [ArtifactDefault EXCEPT !.abi = Some(abi)]

\* fs::write(output, ..) succeeds or not, by the location
Writable(output) == output = "out.json"

(***************************************************************************)
(* Inputs of the Codegen calls                                             *)
(***************************************************************************)
Tok1 == [type |-> "Uint", val |-> 42]
Tok2 == [type |-> "Bool", val |-> 1]

\* runtime bytecodes: 2 bytes, 428 bytes (the length of the crate's
\* documented example), 65535 and 65536 bytes
MainShort == Lit(<<"6", "0", "0", "1">>)
MainDoc == Cat(Lit(<<"6", "0">>), Run("0", 854))
MainMax == Run("0", 131070)
MainOver == Run("0", 131072)

\* constructor bytecodes: "33600055", and two that put the runtime code at
\* offsets 65535 and 65536
CtorDoc == Lit(<<"3", "3", "6", "0", "0", "0", "5", "5">>)
CtorMax == Cat(Lit(<<"3", "3">>), Run("0", 131042))
CtorOver == Cat(Lit(<<"3", "3">>), Run("0", 131044))

\* the calls of churn that are tried
ChurnInputs ==
    { [args |-> <<>>, main |-> MainDoc, ctor |-> CtorDoc],
      [args |-> <<Tok1>>, main |-> MainDoc, ctor |-> <<>>],
      [args |-> <<Tok1, Tok2>>, main |-> MainShort, ctor |-> CtorDoc],
      [args |-> <<Tok2, Tok1>>, main |-> MainShort, ctor |-> CtorDoc],
      [args |-> <<Tok1>>, main |-> MainMax, ctor |-> CtorMax],
      [args |-> <<>>, main |-> MainOver, ctor |-> CtorDoc],
      [args |-> <<Tok2>>, main |-> MainShort, ctor |-> CtorOver],
      [args |-> <<>>, main |-> MainOver, ctor |-> CtorOver] }

Asts == {"astA", "astB"}
Outputs == {"out.json", "no_such_dir/out.json"}

Running == last.ret.kind # "panic"

(***************************************************************************)
(* Codegen actions                                                         *)
(***************************************************************************)
churn ==
    /\ Running
    /\ \E in \in ChurnInputs :
         LET args == in.args
             main_bytecode == in.main
             constructor_bytecode == in.ctor
             art == [churn_artifact(artifact) EXCEPT
                        !.bytecode = churn_bytecode(args, main_bytecode,
                                                    constructor_bytecode),
                        !.runtime = main_bytecode]
         IN  /\ artifact' = Some(art)
             /\ last' = [op |-> "churn", args |-> args, main |-> main_bytecode,
                         ctor |-> constructor_bytecode, ret |-> Ok(art)]
             /\ hChurn' = Some([bytecode |-> art.bytecode,
                                runtime |-> art.runtime])
    /\ UNCHANGED <<file, hAbigen>>
    /\ UNCHANGED expandVars

\* export(&self, output): with an artifact, serialise and write it (the
\* write's failure panics: .expect); without one, warn.  Ok(()) either way.
export_file(art, output, f) ==
    IF art # None /\ Writable(output) THEN art ELSE f

\* variant: exporting without an artifact is an error
export_ret_strict(art, output) ==
    IF art = None THEN [kind |-> "Err"]
    ELSE IF ~Writable(output) THEN Panic ELSE Ok(<<>>)

export_ret(art, output) ==
    IF art # None /\ ~Writable(output) THEN Panic ELSE Ok(<<>>)

export ==
    /\ Running
    /\ \E output \in Outputs :
         /\ file' = export_file(artifact, output, file)
         /\ last' = [op |-> "export", output |-> output,
                     ret |-> export_ret(artifact, output)]
    /\ UNCHANGED <<artifact, hChurn, hAbigen>>
    /\ UNCHANGED expandVars

\* what abigen returns: Ok(abi), unless the export it calls panicked
abigen_ret(art, output, abi) ==
    IF output # None /\ export_ret(art, output[1]).kind = "panic"
    THEN Panic
    ELSE Ok(abi)

abigen ==
    /\ Running
    /\ \E ast \in Asts, output \in {None} \cup {Some(o) : o \in Outputs} :
         LET abi == ToAbi(ast)
             art == Some(abigen_artifact(artifact, abi))
         IN  /\ artifact' = art
             /\ file' = IF output # None
                        THEN export_file(art, output[1], file)
                        ELSE file
             /\ last' = [op |-> "abigen", ast |-> ast, output |-> output,
                         ret |-> abigen_ret(art, output, abi)]
             /\ hAbigen' = Some(abi)
    /\ UNCHANGED hChurn
    /\ UNCHANGED expandVars

\* Codegen::new(); no macro is expanded
Init ==
    /\ artifact = None
    /\ file = None
    /\ last = [op |-> "new", ret |-> Ok(<<>>)]
    /\ hChurn = None
    /\ hAbigen = None
    /\ macros = <<>>
    /\ constants = <<>>
    /\ astArg = FALSE
    /\ selfAst = FALSE
    /\ stack = <<>>
    /\ ret = None

Next == churn \/ abigen \/ export

Spec == Init /\ [][Next]_vars

(***************************************************************************)
(* Macro expansion: Codegen::recurse_bytecode                              *)
(*                                                                         *)
(* An IR item is [kind, name, byte]: kind "Byte" (byte is the unit),       *)
(* "Constant" (name), "MacroInvocation" (name) or "OtherStatement".  A     *)
(* call of recurse_bytecode is a frame [name, ir, idx, final_bytes] on     *)
(* the stack; idx is the item the for loop is at.  A call that returns     *)
(* pops its frame and leaves [of, res] in ret for its caller.              *)
(***************************************************************************)
MaxIR == 3       \* longest IR of the macro that is expanded
MaxDepth == 5    \* frames the call stack can hold

IRByte(b) == [kind |-> "Byte", name |-> "", byte |-> b]
IRConstant(n) == [kind |-> "Constant", name |-> n, byte |-> <<>>]
IRInvoke(n) == [kind |-> "MacroInvocation", name |-> n, byte |-> <<>>]
IROther == [kind |-> "OtherStatement", name |-> "", byte |-> <<>>]

Literal(bs) == [kind |-> "Literal", bytes |-> bs]
FreeStoragePointer == [kind |-> "FreeStoragePointer", bytes |-> <<>>]

\* self.graceful_ast_grab(ast): the ast passed in, else self.ast, else
\* MissingAst
graceful_ast_grab == astArg \/ selfAst

\* contract.find_macro_by_name(name): the first definition of that name
find_macro_by_name(name) ==
    IF \E i \in 1..Len(macros) : macros[i].name = name
    THEN Some(macros[CHOOSE i \in 1..Len(macros) :
                        /\ macros[i].name = name
                        /\ \A j \in 1..(i - 1) : macros[j].name # name])
    ELSE None

\* contract.constants.iter().filter(name).get(0)
find_constant(name) ==
    IF \E i \in 1..Len(constants) : constants[i].name = name
    THEN Some(constants[CHOOSE i \in 1..Len(constants) :
                           /\ constants[i].name = name
                           /\ \A j \in 1..(i - 1) : constants[j].name # name])
    ELSE None

\* hex::encode(l) of a Literal l; of the offset 0 for a FreeStoragePointer
hex_literal(value) ==
    IF value.kind = "Literal" THEN HexEncode(value.bytes) ELSE HexEncode(<<0>>)

\* format!("{:02x}{}", 95 + hex_literal.len() / 2, hex_literal)
push_format(hex) == Cat(FormatHex(95 + StrLen(hex) \div 2, 2), hex)

\* variant: the literal is widened to a 32-byte word before it is pushed
push_bytes_padded(value) ==
    CHOOSE unit \in {push_format(Cat(Run("0", 64 - StrLen(h)), h)) :
                        h \in {hex_literal(value)}} : TRUE

\* the push instruction of a constant's value (hex_literal is bound to its
\* value, as let binds it)
push_bytes(value) ==
    CHOOSE unit \in {push_format(h) : h \in {hex_literal(value)}} : TRUE

\* variant: the error of a missing macro, returned for a missing constant
constant_missing_as_macro == Err("MissingMacroDefinition")

\* the constant is not in the contract
constant_missing == Err("MissingConstantDefinition")

\* the invoked macro is not in the contract
macro_missing == Err("MissingMacroDefinition")

\* variant: the nested call's own error is passed on (as `?` would)
recursion_failed_passthrough(inner) == inner

\* the nested call returned an error
recursion_failed(inner) == Err("FailedMacroRecursion")

\* variant: the inlined bytes are put in front of the caller's
chain_recursed_first(final_bytes, recursed_bytecode) ==
    recursed_bytecode \o final_bytes

\* final_bytes.iter().chain(recursed_bytecode.iter()).collect()
chain_recursed(final_bytes, recursed_bytecode) ==
    final_bytes \o recursed_bytecode

\* variant: a macro that is already being expanded is not found again
ir_macro_unvisited(macro_name) ==
    IF \E i \in 1..Len(stack) : stack[i].name = macro_name
    THEN None
    ELSE find_macro_by_name(macro_name)

\* the macro that matches an invocation
ir_macro(macro_name) == find_macro_by_name(macro_name)

Frame(macro_def) ==
    [name |-> macro_def.name, ir |-> macro_def.ir, idx |-> 1, final_bytes |-> <<>>]

Top == stack[Len(stack)]
Callers == SubSeq(stack, 1, Len(stack) - 1)
Idle == stack = <<>> /\ ret = None
Returned == stack = <<>> /\ ret # None
\* the for loop of the top frame is at an item, and no call is returning
AtItem == stack # <<>> /\ ret = None /\ Top.idx <= Len(Top.ir)
Item == Top.ir[Top.idx]

\* the top frame with its loop moved on and bs appended to final_bytes
Advance(bs) ==
    Callers \o <<[Top EXCEPT !.idx = @ + 1, !.final_bytes = bs]>>

\* the top call returns res
ReturnTop(res) ==
    /\ stack' = Callers
    /\ ret' = Some([of |-> Top.name, res |-> res])

\* recurse_bytecode(macro_def, ast) is called with the first macro of the
\* contract
Call ==
    /\ Idle
    /\ IF graceful_ast_grab
       THEN stack' = <<Frame(macros[1])>> /\ ret' = ret
       ELSE stack' = stack
            /\ ret' = Some([of |-> macros[1].name, res |-> Err("MissingAst")])
    /\ UNCHANGED <<macros, constants, astArg, selfAst>>
    /\ UNCHANGED codegenVars

\* IRByte::Byte(b) => final_bytes.push(b)
IterByte ==
    /\ AtItem
    /\ Item.kind = "Byte"
    /\ stack' = Advance(Append(Top.final_bytes, Item.byte))
    /\ UNCHANGED <<macros, constants, astArg, selfAst, ret>>
    /\ UNCHANGED codegenVars

\* IRByte::Constant(name)
IterConstant ==
    /\ AtItem
    /\ Item.kind = "Constant"
    /\ LET constant == find_constant(Item.name)
       IN  IF constant = None
           THEN ReturnTop(constant_missing)
           ELSE /\ stack' = Advance(Append(Top.final_bytes,
                                           push_bytes(constant[1].value)))
                /\ ret' = ret
    /\ UNCHANGED <<macros, constants, astArg, selfAst>>
    /\ UNCHANGED codegenVars

\* Statement::MacroInvocation(mi): look the macro up and call
\* recurse_bytecode on it (a call the stack has no room for is never made)
IterInvoke ==
    /\ AtItem
    /\ Item.kind = "MacroInvocation"
    /\ LET m == ir_macro(Item.name)
       IN  IF m = None
           THEN ReturnTop(macro_missing)
           ELSE /\ Len(stack) < MaxDepth
                /\ stack' = Append(stack, Frame(m[1]))
                /\ ret' = ret
    /\ UNCHANGED <<macros, constants, astArg, selfAst>>
    /\ UNCHANGED codegenVars

\* the nested recurse_bytecode returned: its bytes are chained to
\* final_bytes, or its error makes this call fail
IterResume ==
    /\ stack # <<>>
    /\ ret # None
    /\ IF ret[1].res.kind = "Ok"
       THEN /\ stack' = Advance(chain_recursed(Top.final_bytes, ret[1].res.val))
            /\ ret' = None
       ELSE ReturnTop(recursion_failed(ret[1].res))
    /\ UNCHANGED <<macros, constants, astArg, selfAst>>
    /\ UNCHANGED codegenVars

\* any other statement
IterOther ==
    /\ AtItem
    /\ Item.kind = "OtherStatement"
    /\ ReturnTop(Err("InvalidMacroStatement"))
    /\ UNCHANGED <<macros, constants, astArg, selfAst>>
    /\ UNCHANGED codegenVars

\* the loop is over: Ok(final_bytes)
Return ==
    /\ stack # <<>>
    /\ ret = None
    /\ Top.idx > Len(Top.ir)
    /\ ReturnTop(Ok(Top.final_bytes))
    /\ UNCHANGED <<macros, constants, astArg, selfAst>>
    /\ UNCHANGED codegenVars

(***************************************************************************)
(* Contracts that are expanded                                             *)
(***************************************************************************)
Unit(c) == Run(c, 2)

\* what the IR of the expanded macro MAIN is made of
MainItems ==
    << IRByte(Unit("a")), IRConstant("K"), IRInvoke("MAIN"),
       IRInvoke("A"), IRInvoke("X"), IROther >>

MainIRs ==
    UNION { { [i \in 1..n |-> MainItems[f[i]]] :
                f \in [1..n -> 1..Len(MainItems)] } : n \in 0..MaxIR }

Macro(n, ir) == [name |-> n, ir |-> ir]

\* the other macros of the contract (X is never defined)
OtherMacros ==
    { <<>>,
      << Macro("A", <<IRByte(Unit("b"))>>) >>,
      << Macro("A", <<IRByte(Unit("b")), IRInvoke("B"), IRConstant("K")>>),
         Macro("B", <<IRByte(Unit("c"))>>) >>,
      << Macro("A", <<IRByte(Unit("b")), IRInvoke("B"), IRByte(Unit("b"))>>),
         Macro("B", <<IRByte(Unit("c")), IRInvoke("X")>>) >>,
      << Macro("A", <<IRInvoke("B")>>),
         Macro("B", <<IRByte(Unit("c")), IRInvoke("A")>>) >>,
      << Macro("A", <<IRByte(Unit("b")), IRInvoke("MAIN")>>) >>,
      << Macro("A", <<IRInvoke("B")>>),
         Macro("B", <<IROther>>) >> }

Const(n, v) == [name |-> n, value |-> v]

Word32 == [i \in 1..32 |-> IF i = 1 THEN 255 ELSE IF i = 32 THEN 1 ELSE 0]

ConstantTables ==
    { <<>>,
      << Const("K", Literal(<<42>>)) >>,
      << Const("K", Literal(<<190, 239>>)), Const("K", Literal(<<42>>)) >>,
      << Const("K", FreeStoragePointer) >>,
      << Const("J", Literal(<<1>>)), Const("K", Literal(Word32)) >> }

\* a fresh Codegen, and a contract whose constants are one of tables
InitWith(tables) ==
    /\ artifact = None
    /\ file = None
    /\ last = [op |-> "new", ret |-> Ok(<<>>)]
    /\ hChurn = None
    /\ hAbigen = None
    /\ \E ir \in MainIRs, others \in OtherMacros :
          macros = <<Macro("MAIN", ir)>> \o others
    /\ constants \in tables
    /\ astArg \in BOOLEAN
    /\ selfAst \in BOOLEAN
    \* without an ast the contract is never read: one contract is enough
    /\ (~astArg => Len(macros) = 1 /\ Len(macros[1].ir) = 0 /\ constants = <<>>)
    /\ (astArg => ~selfAst)
    /\ stack = <<>>
    /\ ret = None

InitExpand == InitWith(ConstantTables)

\* contracts with at most one constant
InitFairExpand == InitWith({t \in ConstantTables : Len(t) <= 1})

NextExpand ==
    \/ Call
    \/ IterByte
    \/ IterConstant
    \/ IterInvoke
    \/ IterResume
    \/ IterOther
    \/ Return

ExpandSpec == InitExpand /\ [][NextExpand]_vars

\* The calls are made and return one after the other: a call that can take
\* its next step takes it.  (Contracts with at most one constant.)
FairExpandSpec ==
    InitFairExpand /\ [][NextExpand]_vars /\ WF_vars(NextExpand)

(***************************************************************************)
(* Claims about the Codegen instance, checked under Spec                   *)
(***************************************************************************)
\* n in hexadecimal, zero-padded on the left to four digits
Hex4(n) ==
    LET h == ToHex(n)
    IN  IF StrLen(h) < 4 THEN Cat(Run("0", 4 - StrLen(h)), h) ELSE h

\* the individually encoded arguments, concatenated in argument order
RECURSIVE ArgsHex(_)
ArgsHex(args) ==
    IF args = <<>> THEN <<>>
    ELSE Cat(HexEncode(AbiEncode(args[1])), ArgsHex(Tail(args)))

\* s without its first k characters
RECURSIVE Drop(_, _)
Drop(s, k) ==
    IF k = 0 \/ s = <<>> THEN s
    ELSE IF s[1][2] <= k THEN Drop(Tail(s), k - s[1][2])
    ELSE << <<s[1][1], s[1][2] - k>> >> \o Tail(s)

\* the first k characters of s
RECURSIVE Take(_, _)
Take(s, k) ==
    IF k = 0 \/ s = <<>> THEN <<>>
    ELSE IF s[1][2] <= k THEN Cat(<<s[1]>>, Take(Tail(s), k - s[1][2]))
    ELSE << <<s[1][1], k>> >>

\* the n characters of s after the first from
SubStr(s, from, n) == Take(Drop(s, from), n)

\* the value of a string of hexadecimal digits
RECURSIVE ParseHex(_)
ParseHex(s) ==
    IF s = <<>> THEN 0
    ELSE LET n == StrLen(s)
             c == Take(Drop(s, n - 1), 1)[1][1]
             d == CHOOSE v \in 0..15 : HexDigits[v + 1] = c
         IN  16 * ParseHex(Take(s, n - 1)) + d

\* C1: churn returns an artifact whose bytecode is
\* C ++ "61" ++ sizeHex ++ "8061" ++ offsetHex ++ "6000396000f3" ++ R ++ argsHex
\* with sizeHex = hex(len(R)/2) and offsetHex = hex(13 + len(C)/2), each
\* zero-padded to 4 digits, and whose runtime field is R unchanged.
C1_ChurnBytecode ==
    last.op = "churn" =>
        /\ last.ret.kind = "Ok"
        /\ last.ret.val.bytecode =
              Join(<< last.ctor,
                      Lit(<<"6", "1">>),
                      Hex4(StrLen(last.main) \div 2),
                      Lit(<<"8", "0", "6", "1">>),
                      Hex4(13 + StrLen(last.ctor) \div 2),
                      Lit(<<"6", "0", "0", "0", "3", "9",
                            "6", "0", "0", "0", "f", "3">>),
                      last.main,
                      ArgsHex(last.args) >>)
        /\ last.ret.val.runtime = last.main

\* the crate's documented example: constructor "33600055" and a runtime of
\* 428 bytes give "33600055" "6101ac" "80" "610011" "6000396000f3" runtime
C1_Witness ==
    /\ last.op = "churn"
    /\ last.ctor = CtorDoc /\ last.main = MainDoc /\ last.args = <<>>
    /\ last.ret.val.bytecode =
          Cat(Lit(<<"3", "3", "6", "0", "0", "0", "5", "5",
                    "6", "1", "0", "1", "a", "c", "8", "0",
                    "6", "1", "0", "0", "1", "1",
                    "6", "0", "0", "0", "3", "9", "6", "0", "0", "0", "f", "3">>),
              MainDoc)

\* C6: the artifact exists from the first churn or abigen on; its bytecode
\* and runtime are those written by the most recent churn (empty if none)
\* and its abi the one written by the most recent abigen (absent if none).
C6_ArtifactFrame ==
    /\ (artifact = None) <=> (hChurn = None /\ hAbigen = None)
    /\ artifact # None =>
          /\ artifact[1].bytecode =
                (IF hChurn = None THEN <<>> ELSE hChurn[1].bytecode)
          /\ artifact[1].runtime =
                (IF hChurn = None THEN <<>> ELSE hChurn[1].runtime)
          /\ artifact[1].abi = hAbigen

\* a churn that followed an abigen
C6_Witness ==
    /\ last.op = "churn"
    /\ hAbigen # None
    /\ artifact # None /\ artifact[1].abi = hAbigen

\* what C7 says of one churn with runtime R and constructor code C
BootstrapLaidOut(bytecode, R, C) ==
    LET cl == StrLen(C) \div 2
        rl == StrLen(R) \div 2
    IN  /\ StrLen(contract_size(R)) = 4
        /\ StrLen(contract_code_offset(C)) = 4
        /\ StrLen(bootstrap_code(R, C)) = 2 * 13
        \* the runtime code begins at byte 13 + constructorLength
        /\ SubStr(bytecode, 2 * (13 + cl), 2 * rl) = R
        \* which is the operand of the second PUSH2 of the bootstrap
        /\ SubStr(bytecode, 2 * cl + 8, 2) = Lit(<<"6", "1">>)
        /\ ParseHex(SubStr(bytecode, 2 * cl + 10, 4)) = 13 + cl

\* C7 as stated: for every pair of even-length hex inputs the size and
\* offset fields are 4 hex digits each, the bootstrap is 13 bytes and the
\* runtime code begins at offset 13 + constructorLength, the value encoded
\* in the offset field.
C7_AsStated ==
    last.op = "churn" =>
        BootstrapLaidOut(last.ret.val.bytecode, last.main, last.ctor)

\* C7, amended: the same when the runtime length and 13 + constructorLength
\* are at most 65535.
C7_Amended ==
    (/\ last.op = "churn"
     /\ StrLen(last.main) \div 2 <= 65535
     /\ 13 + StrLen(last.ctor) \div 2 <= 65535) =>
        BootstrapLaidOut(last.ret.val.bytecode, last.main, last.ctor)

\* a churn at exactly the largest size and offset of the amended claim
C7_Witness ==
    /\ last.op = "churn"
    /\ StrLen(last.main) \div 2 = 65535
    /\ 13 + StrLen(last.ctor) \div 2 = 65535

\* C8: when abigen is given an output location and writing the artifact
\* there fails, abigen still returns the ABI and the ABI is in the artifact.
C8_WriteFailureSwallowed ==
    (/\ last.op = "abigen"
     /\ last.output # None
     /\ ~Writable(last.output[1])) =>
        /\ last.ret = Ok(ToAbi(last.ast))
        /\ artifact # None
        /\ artifact[1].abi = Some(ToAbi(last.ast))

\* C9: export with no artifact returns success, writes nothing and leaves
\* the artifact absent.
C9_NoOpExport ==
    [][(artifact = None /\ last'.op = "export") =>
          /\ last'.ret = Ok(<<>>)
          /\ file' = file
          /\ artifact' = None]_vars

\* an export has run on an instance without an artifact
C9_Witness ==
    /\ last.op = "export"
    /\ artifact = None
    /\ file = None

(***************************************************************************)
(* Claims about recurse_bytecode, checked under ExpandSpec                 *)
(***************************************************************************)
\* a contract is there to expand against
TreeAvailable == astArg \/ selfAst

\* the IR of the macro of that name
MacroIR(name) == find_macro_by_name(name)[1].ir

\* How the expansion of the items ir[i..] goes, for a call whose chain of
\* callers is expanding the macros in chain: "ok" (all expand), "fail" (an
\* item fails first) or "diverge" (an invocation of a macro of the chain is
\* reached first, so the same items are gone through again without end).
RECURSIVE Outcome(_, _, _)
ItemOutcome(item, chain) ==
    CASE item.kind = "Byte" -> "ok"
      [] item.kind = "Constant" ->
            IF find_constant(item.name) = None THEN "fail" ELSE "ok"
      [] item.kind = "MacroInvocation" ->
            IF find_macro_by_name(item.name) = None THEN "fail"
            ELSE IF item.name \in chain THEN "diverge"
            ELSE Outcome(MacroIR(item.name), 1, chain \cup {item.name})
      [] OTHER -> "fail"

Outcome(ir, i, chain) ==
    IF i > Len(ir) THEN "ok"
    ELSE IF ItemOutcome(ir[i], chain) = "ok" THEN Outcome(ir, i + 1, chain)
    ELSE ItemOutcome(ir[i], chain)

\* the first item of macro name that does not expand (0: they all do)
FirstBad(name) ==
    LET ir == MacroIR(name)
        bad == {i \in 1..Len(ir) : ItemOutcome(ir[i], {name}) # "ok"}
    IN  IF bad = {} THEN 0 ELSE CHOOSE i \in bad : \A j \in bad : i <= j

\* the concatenation, in IR order, of what each item contributes
RECURSIVE Flat(_)
Contribution(item) ==
    CASE item.kind = "Byte" -> <<item.byte>>
      [] item.kind = "Constant" -> <<push_bytes(find_constant(item.name)[1].value)>>
      [] item.kind = "MacroInvocation" -> Flat(MacroIR(item.name))

Flat(ir) == IF ir = <<>> THEN <<>> ELSE Contribution(ir[1]) \o Flat(Tail(ir))

\* C2: a call that returns Ok returns the concatenation, in IR order, of
\* each item's contribution: a raw byte itself, a constant its push-encoded
\* unit, an invocation of M the whole expansion of M.
C2_OrderPreserved ==
    (ret # None /\ ret[1].res.kind = "Ok") =>
        ret[1].res.val = Flat(MacroIR(ret[1].of))

\* [byteA, invoke(A), byteA] with A = [byteB, invoke(B), K], B = [byteC] and
\* K = 0x2a has returned byteA byteB byteC 602a byteA
C2_Witness ==
    /\ Returned
    /\ macros[1].ir = <<IRByte(Unit("a")), IRInvoke("A"), IRByte(Unit("a"))>>
    /\ ret[1].res = Ok(<<Unit("a"), Unit("b"), Unit("c"),
                         Lit(<<"6", "0", "2", "a">>), Unit("a")>>)

\* C3: a constant that resolves to a Literal of n bytes (1 <= n <= 32)
\* expands to one unit: the opcode 0x5F + n in two hex digits, then the
\* literal's hex bytes at its own width; 0x2a gives "602a", 0xBEEF "61beef".
C3_PushEncoding ==
    (/\ ret # None
     /\ ret[1].res.kind = "Ok"
     /\ \A i \in 1..Len(MacroIR(ret[1].of)) :
           MacroIR(ret[1].of)[i].kind \in {"Byte", "Constant"}) =>
        LET ir == MacroIR(ret[1].of)
            out == ret[1].res.val
        IN  /\ Len(out) = Len(ir)
            /\ \A i \in 1..Len(ir) :
                  (/\ ir[i].kind = "Constant"
                   /\ find_constant(ir[i].name)[1].value.kind = "Literal") =>
                      LET l == find_constant(ir[i].name)[1].value.bytes
                          n == Len(l)
                      IN  /\ n \in 1..32 =>
                                out[i] = Cat(Lit(<<HexDigits[((95 + n) \div 16) + 1],
                                                   HexDigits[((95 + n) % 16) + 1]>>),
                                             HexEncode(l))
                          /\ l = <<42>> => out[i] = Lit(<<"6", "0", "2", "a">>)
                          /\ l = <<190, 239>> =>
                                out[i] = Lit(<<"6", "1", "b", "e", "e", "f">>)

\* a reference to the two-byte literal 0xBEEF has been expanded
C3_Witness ==
    /\ Returned
    /\ macros[1].ir = <<IRByte(Unit("a")), IRConstant("K")>>
    /\ ret[1].res = Ok(<<Unit("a"), Lit(<<"6", "1", "b", "e", "e", "f">>)>>)

\* C4: a call whose first item that does not expand is an invocation of a
\* macro absent from the tree returns MissingMacroDefinition, and one whose
\* first such item is a reference to a constant absent from the tree returns
\* MissingConstantDefinition: an error, no bytes, whatever was expanded
\* before.
C4_MissingDefinition ==
    (ret # None /\ TreeAvailable /\ FirstBad(ret[1].of) > 0) =>
        LET item == MacroIR(ret[1].of)[FirstBad(ret[1].of)]
        IN  /\ (/\ item.kind = "MacroInvocation"
                /\ find_macro_by_name(item.name) = None) =>
                   ret[1].res = Err("MissingMacroDefinition")
            /\ (/\ item.kind = "Constant"
                /\ find_constant(item.name) = None) =>
                   ret[1].res = Err("MissingConstantDefinition")

\* MAIN = [byte, invoke(A), K] with A expanded and K undefined has returned
\* MissingConstantDefinition
C4_Witness ==
    /\ Returned
    /\ macros[1].ir = <<IRByte(Unit("a")), IRInvoke("A"), IRConstant("K")>>
    /\ find_macro_by_name("A") # None
    /\ ret[1].res = Err("MissingConstantDefinition")

\* C5: a call whose invocation of a macro that is in the tree fails returns
\* FailedMacroRecursion, at every depth; MissingMacroDefinition is returned
\* only by the call whose own body invokes the absent name.
C5_FailedRecursion ==
    (ret # None /\ TreeAvailable) =>
        LET i == FirstBad(ret[1].of)
            ir == MacroIR(ret[1].of)
        IN  /\ (/\ i > 0
                /\ ir[i].kind = "MacroInvocation"
                /\ find_macro_by_name(ir[i].name) # None) =>
                   ret[1].res = Err("FailedMacroRecursion")
            /\ ret[1].res = Err("MissingMacroDefinition") =>
                   /\ i > 0
                   /\ ir[i].kind = "MacroInvocation"
                   /\ find_macro_by_name(ir[i].name) = None

\* A, called by MAIN, returns FailedMacroRecursion because B, which it
\* invokes, returned MissingMacroDefinition
C5_Witness ==
    /\ Len(stack) = 1
    /\ ret # None
    /\ ret[1].of = "A"
    /\ ret[1].res = Err("FailedMacroRecursion")
    /\ find_macro_by_name("B") # None
    /\ FirstBad("B") > 0
    /\ MacroIR("B")[FirstBad("B")].kind = "MacroInvocation"

\* the expanded macro reaches an invocation of itself, directly or through
\* the macros it invokes, before any item fails
Diverges ==
    /\ TreeAvailable
    /\ Outcome(macros[1].ir, 1, {macros[1].name}) = "diverge"

\* the macros that the macros of S invoke
Invoked(S) ==
    {n \in {macros[i].name : i \in 1..Len(macros)} :
        \E i \in 1..Len(macros) :
            /\ macros[i].name \in S
            /\ \E k \in 1..Len(macros[i].ir) :
                  /\ macros[i].ir[k].kind = "MacroInvocation"
                  /\ macros[i].ir[k].name = n}

RECURSIVE InvokedWithin(_, _)
InvokedWithin(S, steps) ==
    IF steps = 0 THEN {}
    ELSE Invoked(S) \cup InvokedWithin(Invoked(S), steps - 1)

\* no macro of the tree invokes itself, directly or transitively
Acyclic ==
    \A i \in 1..Len(macros) :
        macros[i].name \notin InvokedWithin({macros[i].name}, Len(macros))

\* C10: there is no cycle detection.  When the expanded macro invokes itself
\* directly or transitively, with nothing failing before, the call never
\* returns and its recursion depth grows to any bound; when the invocation
\* graph of the tree is acyclic, the call returns.
C10_NoCycleDetection ==
    /\ [](Diverges => ~Returned)
    /\ Diverges ~> (Len(stack) = MaxDepth)
    /\ Acyclic ~> Returned

\* a cycle A -> B -> A that MAIN invokes has filled the stack
C10_Witness ==
    /\ Diverges
    /\ Len(stack) = MaxDepth
    /\ macros[1].ir = <<IRByte(Unit("a")), IRInvoke("A")>>
    /\ Top.name # "MAIN"

=============================================================================
